---- MODULE Spec2Model ----
(***************************************************************************)
(* QtHandles::PushButtonControl (libgui/graphics/PushButtonControl.h).     *)
(*                                                                         *)
(* The header declares four member functions and nothing else.  The model  *)
(* is the call interface that declaration fixes: which caller may invoke   *)
(* which member (C++ member access), which arguments each call carries     *)
(* (the parameter lists), what each call hands back (the return types) and *)
(* the lifetime of adapter objects (a constructor call begins one, a       *)
(* destructor call ends one).  The member function bodies are not part of  *)
(* the header; nothing is modelled of what they do to base-class state.    *)
(***************************************************************************)
EXTENDS Integers, FiniteSets, TLC

\* Bounds of the model.
MaxAdapters == 2    \* adapter objects that can be alive at once
NumGo == 2          \* distinct graphics objects
NumBtn == 2         \* distinct QPushButton widgets
MaxPId == 2         \* distinct property ids

Adapters == 1..MaxAdapters
GraphicsObjects == 1..NumGo
Buttons == 1..NumBtn
PropIds == 1..MaxPId

\* Who makes a call: code outside the adapter hierarchy, or code inside it
\* (members of PushButtonControl, of its bases and of classes derived from it).
Callers == {"client", "hierarchy"}

\* The member functions the class declares (lines 40, 41, 43, 46).
Members == {"PushButtonControl", "~PushButtonControl", "create", "update"}

\* Plausible slip: the "protected:" label is missing, so update is public too.
access_all_public == [m \in Members |-> "public"]

\* Access of each member: "public:" (line 39) covers the constructor, the
\* destructor and create; "protected:" (line 45) covers update.
access ==
  ("PushButtonControl" :> "public") @@ ("~PushButtonControl" :> "public")
    @@ ("create" :> "public") @@ ("update" :> "protected")

\* Plausible slip: update is declared as update (const graphics_object& go,
\* int pId), so a call on an existing adapter is handed a graphics object.
params_update_takes_go ==
  ("PushButtonControl" :> {"go", "btn"}) @@ ("~PushButtonControl" :> {})
    @@ ("create" :> {"go"}) @@ ("update" :> {"go", "pId"})

\* Parameter list of each member: (go, btn), (void), (go), (pId).
params ==
  ("PushButtonControl" :> {"go", "btn"}) @@ ("~PushButtonControl" :> {})
    @@ ("create" :> {"go"}) @@ ("update" :> {"pId"})

\* create is the one static member: it is called without a receiver.
isStatic == [m \in Members |-> m = "create"]

\* Declared return type: none for the constructor and the destructor.
returns ==
  ("PushButtonControl" :> "none") @@ ("~PushButtonControl" :> "none")
    @@ ("create" :> "PushButtonControl*") @@ ("update" :> "void")

\* C++ member access: a public member is accessible to every caller, a
\* protected one only to code of the hierarchy.
Accessible(caller, m) ==
  \/ access[m] = "public"
  \/ access[m] = "protected" /\ caller = "hierarchy"

\* The arguments a call of member m carries: one value per declared parameter.
\* A value offered for a parameter the member does not declare is dropped.
Bind(m, go, btn, pId) ==
  [p \in params[m] |-> [go |-> go, btn |-> btn, pId |-> pId][p]]

VARIABLES
  live,     \* the adapters whose lifetime has begun and not ended
  last,     \* the latest call: caller, member, receiver, arguments, result
  invoked   \* every <<caller, member>> pair that has made a call so far

vars == <<live, last, invoked>>

NoCall ==
  [caller |-> "none", op |-> "none", self |-> {},
   args |-> [p \in {} |-> 0], result |-> {}]

Init ==
  /\ live = {}
  /\ last = NoCall
  /\ invoked = {}

\* One call of member m by caller; self is the receiver ({} for a static
\* member), result the pointer handed back ({} for none, void or null).
Call(caller, m, self, go, btn, pId, result) ==
  /\ Accessible(caller, m)
  /\ isStatic[m] <=> self = {}
  /\ result # {} => returns[m] = "PushButtonControl*"
  /\ last' = [caller |-> caller, op |-> m, self |-> self,
              args |-> Bind(m, go, btn, pId), result |-> result]
  /\ invoked' = invoked \cup {<<caller, m>>}

\* PushButtonControl (const graphics_object& go, QPushButton* btn):
\* the lifetime of a new adapter begins.
PushButtonControl(caller, go, btn) ==
  \E a \in Adapters \ live, pId \in PropIds :
    /\ Call(caller, "PushButtonControl", {a}, go, btn, pId, {})
    /\ live' = live \cup {a}

\* ~PushButtonControl (void): the lifetime of a live adapter ends.
Destructor(caller, a) ==
  \E go \in GraphicsObjects, btn \in Buttons, pId \in PropIds :
    /\ a \in live
    /\ Call(caller, "~PushButtonControl", {a}, go, btn, pId, {})
    /\ live' = live \ {a}

\* static PushButtonControl* create (const graphics_object& go): no receiver;
\* the pointer handed back is null or points to a new adapter.  Which of the
\* two the body chooses is not part of the header: both are admitted.
create(caller, go) ==
  \E btn \in Buttons, pId \in PropIds :
    \/ /\ Call(caller, "create", {}, go, btn, pId, {})
       /\ live' = live
    \/ \E a \in Adapters \ live :
         /\ Call(caller, "create", {}, go, btn, pId, {a})
         /\ live' = live \cup {a}

\* void update (int pId): called on a live adapter; the lifetime is unchanged.
update(caller, a, pId) ==
  \E go \in GraphicsObjects, btn \in Buttons :
    /\ a \in live
    /\ Call(caller, "update", {a}, go, btn, pId, {})
    /\ live' = live

Next ==
  \/ \E c \in Callers, go \in GraphicsObjects, btn \in Buttons :
       PushButtonControl(c, go, btn)
  \/ \E c \in Callers, a \in Adapters : Destructor(c, a)
  \/ \E c \in Callers, go \in GraphicsObjects : create(c, go)
  \/ \E c \in Callers, a \in Adapters, pId \in PropIds : update(c, a, pId)

Spec == Init /\ [][Next]_vars

TypeOK ==
  /\ live \subseteq Adapters
  /\ last.caller \in Callers \cup {"none"}
  /\ last.op \in Members \cup {"none"}
  /\ last.self \subseteq Adapters
  /\ last.result \subseteq Adapters
  /\ invoked \subseteq Callers \X Members

----------------------------------------------------------------------------

\* C1: the class offers exactly the four declared operations; the
\* constructor, the destructor and create are public and update is
\* protected, so a call of update never comes from a client outside the
\* adapter hierarchy, and a client's calls are of the three public members.
C1_ClientNeverInvokesUpdate ==
  /\ Cardinality(Members) = 4
  /\ last.op # "none" => last.op \in Members
  /\ last.op = "update" => last.caller = "hierarchy"
  /\ <<"client", "update">> \notin invoked
  /\ \A m \in Members :
       <<"client", m>> \in invoked =>
         m \in {"PushButtonControl", "~PushButtonControl", "create"}

\* A client has used each of the three public members, and update has run
\* on a live adapter on behalf of the hierarchy.
C1_Witness ==
  /\ {<<"client", "PushButtonControl">>, <<"client", "~PushButtonControl">>,
      <<"client", "create">>} \subseteq invoked
  /\ last.op = "update"
  /\ last.caller = "hierarchy"
  /\ last.self # {}
  /\ last.self \subseteq live

\* C7 as stated: apart from the constructor, no operation of the class is
\* handed a graphics object or a QPushButton.
C7_OnlyConstructorTakesGoOrBtn ==
  last.op \notin {"none", "PushButtonControl"} =>
    DOMAIN last.args \cap {"go", "btn"} = {}

\* C7 as amended: apart from the constructor and the static factory create,
\* which has no receiver, no operation is handed a graphics object or a
\* QPushButton; a call on an existing adapter (update, the destructor)
\* carries neither, and update carries only a property id.
C7_NoCallOnExistingAdapterTakesGoOrBtn ==
  /\ "go" \in DOMAIN last.args =>
       \/ last.op = "PushButtonControl"
       \/ last.op = "create" /\ last.self = {}
  /\ "btn" \in DOMAIN last.args => last.op = "PushButtonControl"
  /\ last.op \in {"update", "~PushButtonControl"} =>
       /\ last.self # {}
       /\ DOMAIN last.args \cap {"go", "btn"} = {}
  /\ last.op = "update" =>
       /\ DOMAIN last.args = {"pId"}
       /\ last.args["pId"] \in PropIds

\* update has just run on an adapter that is still alive, after both the
\* constructor and create have been handed a graphics object.
C7_Witness ==
  /\ last.op = "update"
  /\ last.self # {}
  /\ last.self \subseteq live
  /\ \E c1, c2 \in Callers :
       {<<c1, "PushButtonControl">>, <<c2, "create">>} \subseteq invoked

====
